---- MODULE Spec2Model ----
(***************************************************************************)
(* Model of web/ai_factory_view.py: the dynamic loader of the optional     *)
(* ai_factory_tabs module (load_factory_tabs), the fallback stubs, the     *)
(* module-level imports, and the dashboard view render_ai_factory_view     *)
(* with its session-state bootstrap and the create-code tab.               *)
(***************************************************************************)
EXTENDS Integers, Sequences, FiniteSets, TLC

\* ------------------------------------------------------------------ bounds
MaxCalls == 4        \* render_ai_factory_view calls explored per session
MaxFiles == 1        \* created files reported by one process_request result
MaxStubCalls == 4    \* calls made on the fallback stubs in StubSpec

VARIABLES
    binding,      \* process-wide name -> implementation ("stub" or module name)
    lpc,          \* position inside load_factory_tabs
    idx,          \* index into targets of the standard import being tried
    ret,          \* return value of load_factory_tabs ("none" until it returns)
    attempts,     \* history: the strategies attempted so far, with outcomes
    warned,       \* st.warning of line 78 was emitted
    sidebarError, \* st.sidebar.error of line 84 was emitted
    modState,     \* "loading" | "ready" | "failed" : import of ai_factory_view
    aiDefined,    \* names AIOrchestrator / MemorySystem are defined (l.87-91)
    n8nFallback,  \* the fallback class N8NClient of l.97-104 is in use
    session,      \* st.session_state : function from present keys to values
    nInit,        \* history: how often each session object key was assigned
    callCount,    \* number of render_ai_factory_view calls made
    lastCall,     \* observable record of the last render_ai_factory_view call
    stubClient,   \* StubSpec: an instance of the fallback N8NClient
    stubArgs,     \* StubSpec: the arguments of the last stub operation
    stubOp,       \* StubSpec: the last stub operation invoked
    stubRet,      \* StubSpec: what that operation returned
    stubCalls     \* StubSpec: number of stub operations invoked

vars == <<binding, lpc, idx, ret, attempts, warned, sidebarError, modState,
          aiDefined, n8nFallback, session, nInit, callCount, lastCall,
          stubClient, stubArgs, stubOp, stubRet, stubCalls>>

loaderVars == <<binding, lpc, idx, ret, attempts, warned>>
stubVars == <<stubClient, stubArgs, stubOp, stubRet, stubCalls>>
viewVars == <<sidebarError, modState, aiDefined, n8nFallback, session, nInit,
              callCount, lastCall>>

\* ------------------------------------------------------- binding targets
\* The three global names rebound by load_factory_tabs, in the order in
\* which lines 58-60 and 73-75 assign them.
Caps == <<"render_universal_data_hub_tab", "render_system_management_tab",
          "add_to_hub">>

CapSet == {Caps[i] : i \in 1..Len(Caps)}

\* Module-level fallback definitions: every name starts as its stub.
FallbackBindings == [c \in CapSet |-> "stub"]

\* List of import patterns tried by the standard-import loop.
targets == <<"web.ai_factory_tabs", "ai_factory_tabs">>

\* Name given to the module loaded from the file path.
DirectModule == "ai_factory_tabs_fixed"

\* Outcomes of importlib.import_module(target).
StdOutcomes == {"ImportError", "OtherError", "Loaded"}

\* Outcomes of the direct strategy: "this_dir" missing from ENV_INFO, the
\* file missing, the load raising, or the module executing.
DirectOutcomes == {"NoThisDir", "NotExists", "ExecError", "Loaded"}

\* Number of leading capabilities that a module exposing caps provides; the
\* attribute read that follows them raises AttributeError.
BoundPrefix(caps) ==
    IF Caps[1] \notin caps THEN 0
    ELSE IF Caps[2] \notin caps THEN 1
    ELSE IF Caps[3] \notin caps THEN 2
    ELSE 3

\* The three assignments of lines 58-60 / 73-75 applied to bindings b for a
\* module m exposing caps: they run in order and stop at the first
\* missing attribute, keeping what was assigned before it.
BindFrom(b, m, caps) ==
    [c \in CapSet |->
        IF \E i \in 1..BoundPrefix(caps) : Caps[i] = c THEN m ELSE b[c]]

\* A strategy succeeded: the module loaded and all three names were bound.
Succeeded(a) == a.result = "Loaded" /\ BoundPrefix(a.caps) = Len(Caps)

\* Control after one iteration of the standard-import loop (lines 55-63):
\* "return True" on success, "continue" on ImportError, and any other
\* exception (including the AttributeError of a missing capability)
\* leaves the function.
StdControlNoReturn(i, result, caps) ==
    IF result = "ImportError" \/ (result = "Loaded" /\ BoundPrefix(caps) = Len(Caps))
    THEN IF i < Len(targets) THEN [lpc |-> "loop", idx |-> i + 1, ret |-> "none"]
         ELSE [lpc |-> "direct", idx |-> i, ret |-> "none"]
    ELSE [lpc |-> "raised", idx |-> i, ret |-> "none"]

StdControl(i, result, caps) ==
    IF result = "Loaded" /\ BoundPrefix(caps) = Len(Caps)
    THEN [lpc |-> "returned", idx |-> i, ret |-> "True"]
    ELSE IF result = "ImportError"
    THEN IF i < Len(targets) THEN [lpc |-> "loop", idx |-> i + 1, ret |-> "none"]
         ELSE [lpc |-> "direct", idx |-> i, ret |-> "none"]
    ELSE [lpc |-> "raised", idx |-> i, ret |-> "none"]

\* One iteration of "for target in targets" (lines 55-63).
TryStandard(result, caps) ==
    /\ lpc = "loop"
    /\ result = "Loaded" \/ caps = {}
    /\ LET c == StdControl(idx, result, caps) IN
        /\ binding' = IF result = "Loaded"
                      THEN BindFrom(binding, targets[idx], caps)
                      ELSE binding
        /\ lpc' = c.lpc
        /\ idx' = c.idx
        /\ ret' = c.ret
    /\ attempts' = Append(attempts,
                     [strategy |-> idx, target |-> targets[idx],
                      result |-> result, caps |-> caps])
    /\ UNCHANGED <<warned>>
    /\ UNCHANGED viewVars
    /\ UNCHANGED stubVars

\* Pattern C (lines 66-80): the file-path load, its except clause and the
\* final "return False".
TryDirect(result, caps) ==
    /\ lpc = "direct"
    /\ result = "Loaded" \/ caps = {}
    /\ binding' = IF result = "Loaded"
                  THEN BindFrom(binding, DirectModule, caps)
                  ELSE binding
    /\ lpc' = "returned"
    /\ ret' = IF result = "Loaded" /\ BoundPrefix(caps) = Len(Caps)
              THEN "True" ELSE "False"
    /\ warned' = (result = "ExecError"
                  \/ (result = "Loaded" /\ BoundPrefix(caps) < Len(Caps)))
    /\ attempts' = Append(attempts,
                     [strategy |-> Len(targets) + 1, target |-> DirectModule,
                      result |-> result, caps |-> caps])
    /\ UNCHANGED <<idx>>
    /\ UNCHANGED viewVars
    /\ UNCHANGED stubVars

\* Lines 83-105 after load_factory_tabs returned: the sidebar error when it
\* reported failure, then the imports of ai_modules and n8n_integration,
\* each of which either binds its names or raises ImportError.
ModuleLevel(ai, fb) ==
    /\ modState = "loading"
    /\ lpc = "returned"
    /\ sidebarError' = (ret = "False")
    /\ aiDefined' = ai
    /\ n8nFallback' = fb
    /\ modState' = "ready"
    /\ UNCHANGED <<session, nInit, callCount, lastCall>>
    /\ UNCHANGED loaderVars
    /\ UNCHANGED stubVars

\* Line 83 when load_factory_tabs raised: the exception leaves the module's
\* top level and the import of ai_factory_view fails.
ModuleFails ==
    /\ modState = "loading"
    /\ lpc = "raised"
    /\ modState' = "failed"
    /\ UNCHANGED <<sidebarError, aiDefined, n8nFallback, session, nInit,
                   callCount, lastCall>>
    /\ UNCHANGED loaderVars
    /\ UNCHANGED stubVars

\* ------------------------------------------------------------ python values
None == [py |-> "None"]

\* A process_request result whose execution.created_files holds n files
\* that exist on disk.
Result(n) == [py |-> "dict", files |-> n]

Results == {Result(n) : n \in 0..MaxFiles}

AIOrchestrator(api_key) == [py |-> "AIOrchestrator", key |-> api_key]

MemorySystem == [py |-> "MemorySystem"]

\* The client imported from n8n_integration (line 95).
N8nClient(base_url, api_key) ==
    [py |-> "N8nClient", base_url |-> base_url, api_key |-> api_key]

\* The fallback class of lines 97-104.
N8NClient(base_url, api_key) ==
    [py |-> "N8NClient", base_url |-> base_url, api_key |-> api_key]

test_connection_true(self) == TRUE

test_connection(self) == FALSE

get_workflow_statistics(self) == [total_workflows |-> 0, active_workflows |-> 0]

get_execution_statistics(self) ==
    [total_executions |-> 0, successful |-> 0, executions |-> <<>>]

get_workflows(self) == <<>>

\* The fallback add_to_hub of line 42.
add_to_hub(args, kwargs) == FALSE

\* Default base_url of line 98 and line 121.
DefaultUrl == "http://localhost:5678"

Urls == {DefaultUrl, "https://n8n.example"}
ApiKeys == {"None", "secret"}
GeminiKeys == {"", "gk"}
HubArgs == {<<>>, <<"t">>, <<"t", "c", "k">>}
HubKwargs == {<<>>, <<"category">>}

\* st.session_state[k] = v
Put(s, k, v) == [q \in DOMAIN s \cup {k} |-> IF q = k THEN v ELSE s[q]]

\* 'gemini_key' in st.session_state and st.session_state.gemini_key
HasGeminiKey(s) == "gemini_key" \in DOMAIN s /\ s.gemini_key # ""

\* ------------------------------------------------------------- the view
\* Lines 111-123: the session objects are created only when their key is
\* missing.  With ai_modules not imported the names AIOrchestrator and
\* MemorySystem are undefined and evaluating them raises NameError (err).
\* made is the set of keys assigned by this call.
BootstrapOrchestratorAlways(s, ai) ==
    IF HasGeminiKey(s)
    THEN IF ai
         THEN [s |-> Put(s, "orchestrator", AIOrchestrator(s.gemini_key)),
               err |-> FALSE, made |-> {"orchestrator"}]
         ELSE [s |-> s, err |-> TRUE, made |-> {}]
    ELSE [s |-> Put(s, "orchestrator", None), err |-> FALSE,
          made |-> {"orchestrator"}]

BootstrapOrchestrator(s, ai) ==
    IF "orchestrator" \in DOMAIN s
    THEN [s |-> s, err |-> FALSE, made |-> {}]
    ELSE IF HasGeminiKey(s)
    THEN IF ai
         THEN [s |-> Put(s, "orchestrator", AIOrchestrator(s.gemini_key)),
               err |-> FALSE, made |-> {"orchestrator"}]
         ELSE [s |-> s, err |-> TRUE, made |-> {}]
    ELSE [s |-> Put(s, "orchestrator", None), err |-> FALSE,
          made |-> {"orchestrator"}]

BootstrapMemory(b, ai) ==
    IF b.err \/ "memory" \in DOMAIN b.s
    THEN b
    ELSE IF ai
    THEN [s |-> Put(b.s, "memory", MemorySystem), err |-> FALSE,
          made |-> b.made \cup {"memory"}]
    ELSE [s |-> b.s, err |-> TRUE, made |-> b.made]

BootstrapN8n(b, fb, url, key) ==
    IF b.err \/ "n8n_client" \in DOMAIN b.s
    THEN b
    ELSE [s |-> Put(b.s, "n8n_client",
                    IF fb THEN N8NClient(url, key) ELSE N8nClient(url, key)),
          err |-> FALSE, made |-> b.made \cup {"n8n_client"}]

BootstrapSession(s, ai, fb, url, key) ==
    BootstrapN8n(BootstrapMemory(BootstrapOrchestrator(s, ai), ai), fb, url, key)

\* Where the handling of a form submission (lines 160-167) can end: "ok"
\* runs to st.rerun(); the others name the statement that raises.
SubmitOutcomes ==
    {"ok", "raise_process", "raise_plan", "raise_hub", "raise_files"}

\* add_to_hub invocations made before the submission handling ends.
HubCallsOf(po, res) ==
    IF po = "ok" THEN 1 + res.files
    ELSE IF po \in {"raise_hub", "raise_files"} THEN 1
    ELSE 0

\* Lines 149-177.  click is the value of st.form_submit_button.  A
\* successful submission stores the result and calls st.rerun(), which
\* halts the current script run (its RerunException is not an Exception,
\* so "except Exception" does not catch it); a submission that raises is
\* caught at line 168 and reported with st.error.
render_create_code_tab_early_store(s, click, po, res) ==
    IF s.orchestrator = None
    THEN [s |-> s, msgs |-> <<"warning: no Gemini API key">>, rerun |-> FALSE,
          hubCalls |-> 0, procCalled |-> FALSE, formShown |-> FALSE]
    ELSE LET s1 == IF "last_res" \in DOMAIN s THEN s
                   ELSE Put(s, "last_res", None)
         IN  IF click /\ po = "ok"
             THEN [s |-> Put(s1, "last_res", res), msgs |-> <<>>,
                   rerun |-> TRUE, hubCalls |-> HubCallsOf(po, res),
                   procCalled |-> TRUE, formShown |-> TRUE]
             ELSE LET s2 == IF click /\ po # "raise_process"
                            THEN Put(s1, "last_res", res) ELSE s1
                  IN [s |-> s2,
                   msgs |-> (IF click THEN <<"error: request failed">>
                             ELSE <<>>)
                            \o (IF s2.last_res # None
                                THEN <<"success: saved">> ELSE <<>>),
                   rerun |-> FALSE,
                   hubCalls |-> IF click THEN HubCallsOf(po, res) ELSE 0,
                   procCalled |-> click, formShown |-> TRUE]

render_create_code_tab(s, click, po, res) ==
    IF s.orchestrator = None
    THEN [s |-> s, msgs |-> <<"warning: no Gemini API key">>, rerun |-> FALSE,
          hubCalls |-> 0, procCalled |-> FALSE, formShown |-> FALSE]
    ELSE LET s1 == IF "last_res" \in DOMAIN s THEN s
                   ELSE Put(s, "last_res", None)
         IN  IF click /\ po = "ok"
             THEN [s |-> Put(s1, "last_res", res), msgs |-> <<>>,
                   rerun |-> TRUE, hubCalls |-> HubCallsOf(po, res),
                   procCalled |-> TRUE, formShown |-> TRUE]
             ELSE [s |-> s1,
                   msgs |-> (IF click THEN <<"error: request failed">>
                             ELSE <<>>)
                            \o (IF s1.last_res # None
                                THEN <<"success: saved">> ELSE <<>>),
                   rerun |-> FALSE,
                   hubCalls |-> IF click THEN HubCallsOf(po, res) ELSE 0,
                   procCalled |-> click, formShown |-> TRUE]

\* Lines 37-41 and the real renderers: what tab 4 and tab 6 emit for the
\* implementation currently bound to the name.
render_universal_data_hub_tab(impl, diag) ==
    IF impl = "stub"
    THEN <<"error: ai_factory_tabs not found">>
         \o (IF diag THEN <<"json: ENV_INFO">> ELSE <<>>)
    ELSE <<"data hub">>

render_system_management_tab_silent(impl) ==
    IF impl = "stub" THEN <<>> ELSE <<"system management">>

render_system_management_tab(impl) ==
    IF impl = "stub" THEN <<"error: admin tab">> ELSE <<"system management">>

\* Lines 185-188: the fallback client never connects; the real one may.
render_workflows_tab(c, conn) ==
    IF (IF c.py = "N8NClient" THEN test_connection(c) ELSE conn)
    THEN <<"success: n8n connected">>
    ELSE <<"warning: n8n not connected">>

render_dashboard_tab == <<"statistics">>

render_knowledge_base_tab == <<"knowledge search">>

NoCall == [tabs |-> <<>>, outcome |-> "none", msgs |-> <<>>, hubCalls |-> 0,
           procCalled |-> FALSE, formShown |-> FALSE, click |-> FALSE,
           po |-> "ok"]

\* Lines 107-135: one call of render_ai_factory_view.
render_ai_factory_view(click, po, res, url, key, diag, conn) ==
    /\ modState = "ready"
    /\ callCount < MaxCalls
    /\ click => (lastCall.formShown /\ lastCall.outcome # "rerun")
    /\ ~click => (po = "ok" /\ res = Result(0))
    /\ po = "raise_hub" => binding["add_to_hub"] # "stub"
    /\ po = "raise_files" => res.files >= 1
    /\ po \in {"raise_process", "raise_plan", "raise_hub"} => res = Result(0)
    \* inputs that this call does not read are fixed
    /\ "n8n_client" \in DOMAIN session => (url = DefaultUrl /\ key = "None")
    /\ binding["render_universal_data_hub_tab"] # "stub" => ~diag
    /\ n8nFallback => ~conn
    /\ LET b == BootstrapSession(session, aiDefined, n8nFallback, url, key)
           t == IF b.err THEN [s |-> b.s, msgs |-> <<>>, rerun |-> FALSE,
                               hubCalls |-> 0, procCalled |-> FALSE,
                               formShown |-> FALSE]
                ELSE render_create_code_tab(b.s, click, po, res)
       IN
        /\ session' = t.s
        /\ nInit' = [k \in DOMAIN nInit |->
                       IF k \in b.made THEN nInit[k] + 1 ELSE nInit[k]]
        /\ callCount' = callCount + 1
        /\ lastCall' =
            IF b.err
            THEN [NoCall EXCEPT !.outcome = "NameError", !.click = click,
                                !.po = po]
            ELSE IF t.rerun
            THEN [tabs |-> <<1, 2>>, outcome |-> "rerun",
                  msgs |-> render_dashboard_tab \o t.msgs,
                  hubCalls |-> t.hubCalls, procCalled |-> t.procCalled,
                  formShown |-> t.formShown, click |-> click, po |-> po]
            ELSE [tabs |-> <<1, 2, 3, 4, 5, 6>>, outcome |-> "completed",
                  msgs |-> render_dashboard_tab \o t.msgs
                           \o render_knowledge_base_tab
                           \o render_universal_data_hub_tab(
                                  binding["render_universal_data_hub_tab"], diag)
                           \o render_workflows_tab(t.s.n8n_client, conn)
                           \o render_system_management_tab(
                                  binding["render_system_management_tab"]),
                  hubCalls |-> t.hubCalls, procCalled |-> t.procCalled,
                  formShown |-> t.formShown, click |-> click, po |-> po]
    /\ UNCHANGED <<sidebarError, modState, aiDefined, n8nFallback>>
    /\ UNCHANGED loaderVars
    /\ UNCHANGED stubVars

\* The sidebar (outside this file) stores or clears the Gemini API key that
\* line 112 reads.
SetGeminiKey(k) ==
    /\ modState = "ready"
    /\ ~("gemini_key" \in DOMAIN session /\ session.gemini_key = k)
    /\ session' = Put(session, "gemini_key", k)
    /\ UNCHANGED <<sidebarError, modState, aiDefined, n8nFallback, nInit,
                   callCount, lastCall>>
    /\ UNCHANGED loaderVars
    /\ UNCHANGED stubVars

\* A fresh st.session_state: no key is present.
EmptySession == [k \in {} |-> None]

SessionKeys == {"orchestrator", "memory", "n8n_client"}

NoClient == [py |-> "unset"]

Init ==
    /\ binding = FallbackBindings
    /\ lpc = "loop"
    /\ idx = 1
    /\ ret = "none"
    /\ attempts = <<>>
    /\ warned = FALSE
    /\ sidebarError = FALSE
    /\ modState = "loading"
    /\ aiDefined = FALSE
    /\ n8nFallback = FALSE
    /\ session = EmptySession
    /\ nInit = [k \in SessionKeys |-> 0]
    /\ callCount = 0
    /\ lastCall = NoCall
    /\ stubClient = NoClient
    /\ stubArgs = <<>>
    /\ stubOp = "none"
    /\ stubRet = None
    /\ stubCalls = 0

Next ==
    \/ \E r \in StdOutcomes, caps \in SUBSET CapSet : TryStandard(r, caps)
    \/ \E r \in DirectOutcomes, caps \in SUBSET CapSet : TryDirect(r, caps)
    \/ \E ai \in BOOLEAN, fb \in BOOLEAN : ModuleLevel(ai, fb)
    \/ ModuleFails
    \/ \E k \in GeminiKeys : SetGeminiKey(k)
    \/ \E click \in BOOLEAN, po \in SubmitOutcomes, res \in Results,
          url \in Urls, key \in ApiKeys, diag \in BOOLEAN, conn \in BOOLEAN :
            render_ai_factory_view(click, po, res, url, key, diag, conn)

Spec == Init /\ [][Next]_vars

\* ------------------------------------------------- the fallback stubs alone
\* N8NClient.__init__ (lines 98-100).
StubConstruct(url, key) ==
    /\ stubCalls < MaxStubCalls
    /\ stubClient' = N8NClient(url, key)
    /\ stubArgs' = <<url, key>>
    /\ stubOp' = "__init__"
    /\ stubRet' = None
    /\ stubCalls' = stubCalls + 1
    /\ UNCHANGED loaderVars
    /\ UNCHANGED viewVars

\* N8NClient.test_connection (line 101).
StubTestConnection ==
    /\ stubCalls < MaxStubCalls
    /\ stubClient # NoClient
    /\ stubRet' = test_connection(stubClient)
    /\ stubOp' = "test_connection"
    /\ stubArgs' = <<>>
    /\ stubCalls' = stubCalls + 1
    /\ UNCHANGED <<stubClient>>
    /\ UNCHANGED loaderVars
    /\ UNCHANGED viewVars

\* N8NClient.get_workflow_statistics (line 102).
StubGetWorkflowStatistics ==
    /\ stubCalls < MaxStubCalls
    /\ stubClient # NoClient
    /\ stubRet' = get_workflow_statistics(stubClient)
    /\ stubOp' = "get_workflow_statistics"
    /\ stubArgs' = <<>>
    /\ stubCalls' = stubCalls + 1
    /\ UNCHANGED <<stubClient>>
    /\ UNCHANGED loaderVars
    /\ UNCHANGED viewVars

\* N8NClient.get_execution_statistics (line 103).
StubGetExecutionStatistics ==
    /\ stubCalls < MaxStubCalls
    /\ stubClient # NoClient
    /\ stubRet' = get_execution_statistics(stubClient)
    /\ stubOp' = "get_execution_statistics"
    /\ stubArgs' = <<>>
    /\ stubCalls' = stubCalls + 1
    /\ UNCHANGED <<stubClient>>
    /\ UNCHANGED loaderVars
    /\ UNCHANGED viewVars

\* N8NClient.get_workflows (line 104).
StubGetWorkflows ==
    /\ stubCalls < MaxStubCalls
    /\ stubClient # NoClient
    /\ stubRet' = get_workflows(stubClient)
    /\ stubOp' = "get_workflows"
    /\ stubArgs' = <<>>
    /\ stubCalls' = stubCalls + 1
    /\ UNCHANGED <<stubClient>>
    /\ UNCHANGED loaderVars
    /\ UNCHANGED viewVars

\* The fallback add_to_hub called with any arguments (line 42).
StubAddToHub(args, kwargs) ==
    /\ stubCalls < MaxStubCalls
    /\ stubRet' = add_to_hub(args, kwargs)
    /\ stubOp' = "add_to_hub"
    /\ stubArgs' = <<args, kwargs>>
    /\ stubCalls' = stubCalls + 1
    /\ UNCHANGED <<stubClient>>
    /\ UNCHANGED loaderVars
    /\ UNCHANGED viewVars

StubNext ==
    \/ \E url \in Urls, key \in ApiKeys : StubConstruct(url, key)
    \/ StubTestConnection
    \/ StubGetWorkflowStatistics
    \/ StubGetExecutionStatistics
    \/ StubGetWorkflows
    \/ \E args \in HubArgs, kwargs \in HubKwargs : StubAddToHub(args, kwargs)

StubSpec == Init /\ [][StubNext]_vars

\* ------------------------------------------------------------------ claims
AllTabs == <<1, 2, 3, 4, 5, 6>>

Emitted(call, m) == \E i \in 1..Len(call.msgs) : call.msgs[i] = m

RealCount == Cardinality({c \in CapSet : binding[c] # "stub"})

BothStandardImportsFailed ==
    /\ Len(attempts) = Len(targets) + 1
    /\ \A i \in 1..Len(targets) : attempts[i].result = "ImportError"

\* The extension module is absent entirely.
AbsentEntirely ==
    /\ BothStandardImportsFailed
    /\ attempts[Len(attempts)].result = "NotExists"

\* C1: the strategies are attempted in the fixed order web.ai_factory_tabs,
\* ai_factory_tabs, direct file load; each at most once; a strategy is
\* attempted only when every earlier one failed; a strategy that succeeds
\* is the last one attempted and the call has returned True.
C1_PriorityOrder ==
    /\ Len(attempts) <= Len(targets) + 1
    /\ \A i \in 1..Len(attempts) :
        /\ attempts[i].strategy = i
        /\ attempts[i].target =
              (<<"web.ai_factory_tabs", "ai_factory_tabs",
                 "ai_factory_tabs_fixed">>)[i]
        /\ \A j \in 1..(i - 1) : ~Succeeded(attempts[j])
        /\ Succeeded(attempts[i]) =>
              (i = Len(attempts) /\ lpc = "returned" /\ ret = "True")

C1_Witness ==
    /\ Len(attempts) = 3
    /\ Succeeded(attempts[3])
    /\ ret = "True"

\* C2: no call of load_factory_tabs ends with an exception leaving it; it
\* ends by returning True or False, and a raising direct load warns and
\* returns False.
C2_NeverEscapes ==
    /\ lpc # "raised"
    /\ (lpc = "returned" /\ attempts[Len(attempts)].result = "ExecError")
          => (warned /\ ret = "False")

\* C3: when load_factory_tabs has returned the three names are bound as a
\* set (none or all three); with both standard imports failed and no file
\* the result is False with all three stubs, and with both standard
\* imports failed and the file loaded the result is True with all three
\* bound to the loaded module.
C3_BoundAsSet ==
    lpc = "returned" =>
        /\ RealCount \in {0, Len(Caps)}
        /\ AbsentEntirely => (ret = "False" /\ binding = FallbackBindings)
        /\ (BothStandardImportsFailed
              /\ attempts[Len(attempts)].result = "Loaded")
             => (ret = "True" /\ binding = [c \in CapSet |-> DirectModule])

\* C4: every target always has an implementation; a target goes from stub
\* to real only in a step in which a strategy of load_factory_tabs succeeds;
\* a real implementation is never replaced by a stub.
C4_BindingLifecycle ==
    /\ [](\A c \in CapSet :
            binding[c] \in {"stub", targets[1], targets[2], DirectModule})
    /\ [][\A c \in CapSet :
            /\ (binding[c] = "stub" /\ binding'[c] # "stub")
                 => (lpc' = "returned" /\ ret' = "True")
            /\ binding[c] # "stub" => binding'[c] # "stub"]_vars

\* What C5 requires of a call that ran to the end.
C5_DegradedRender ==
    /\ lastCall.outcome = "completed"
    /\ lastCall.tabs = AllTabs
    /\ Emitted(lastCall, "error: ai_factory_tabs not found")
    /\ Emitted(lastCall, "error: admin tab")

C5_Scenario == AbsentEntirely /\ modState = "ready" /\ aiDefined

\* C5 as stated: with the extension module absent and the collaborators
\* available, the sidebar error is emitted and every call of
\* render_ai_factory_view invokes the six tabs in order and completes, tabs
\* 4 and 6 emitting the stub errors.
C5_Original ==
    C5_Scenario => (sidebarError /\ (callCount > 0 => C5_DegradedRender))

\* C5 amended: the same, except that a call whose create-code submission
\* succeeded is halted by st.rerun() after tabs 1 and 2.
C5_Amended ==
    C5_Scenario =>
        /\ Len(attempts) = 3
        /\ sidebarError
        /\ callCount > 0 =>
            \/ C5_DegradedRender
            \/ /\ lastCall.outcome = "rerun"
               /\ lastCall.tabs = <<1, 2>>
               /\ lastCall.click
               /\ lastCall.po = "ok"

C5_Witness ==
    /\ C5_Scenario
    /\ callCount >= 2
    /\ C5_DegradedRender
    /\ session.orchestrator # None

\* C6: with no API key in the session or with ai_modules not imported, a
\* call of render_ai_factory_view completes and invokes the six tabs; with
\* no API key the create-code tab warns and does nothing else.
C6_NonFatalCollaborators ==
    (callCount > 0 /\
        (~aiDefined \/ ("orchestrator" \in DOMAIN session
                          /\ session.orchestrator = None)))
    =>  /\ lastCall.outcome = "completed"
        /\ lastCall.tabs = AllTabs
        /\ ("orchestrator" \in DOMAIN session /\ session.orchestrator = None)
             => /\ Emitted(lastCall, "warning: no Gemini API key")
                /\ ~lastCall.procCalled
                /\ lastCall.hubCalls = 0
                /\ "last_res" \notin DOMAIN session

\* C7: each of orchestrator, memory and n8n_client is assigned at most
\* once, by a call that found its key missing; a key that is present keeps
\* its value in every later step, so an orchestrator cached as None stays
\* None also after a gemini_key is stored.
C7_ConstructedOnce ==
    /\ [](\A k \in SessionKeys :
            /\ nInit[k] <= 1
            /\ (nInit[k] = 1) <=> (k \in DOMAIN session))
    /\ [][\A k \in SessionKeys :
            /\ k \in DOMAIN session
                 => (k \in DOMAIN session' /\ session'[k] = session[k])
            /\ (k \notin DOMAIN session /\ k \in DOMAIN session')
                 => callCount' = callCount + 1]_vars

C7_Witness ==
    /\ callCount >= 2
    /\ lastCall.outcome = "completed"
    /\ session.orchestrator = None
    /\ HasGeminiKey(session)
    /\ nInit = [k \in SessionKeys |-> 1]

CachedKeys == SessionKeys \cup {"last_res"}

\* C8: a call whose create-code submission raised emits the inline error,
\* still invokes the six tabs and completes, and leaves last_res,
\* orchestrator, memory and n8n_client as they were before the call.
C8_RequestFailureContained ==
    [][(callCount' = callCount + 1 /\ lastCall'.click /\ lastCall'.po # "ok")
        => /\ Emitted(lastCall', "error: request failed")
           /\ lastCall'.outcome = "completed"
           /\ lastCall'.tabs = AllTabs
           /\ \A k \in CachedKeys :
                /\ k \in DOMAIN session
                /\ k \in DOMAIN session'
                /\ session'[k] = session[k]]_vars

C8_Witness ==
    /\ lastCall.click
    /\ lastCall.po = "raise_files"
    /\ lastCall.outcome = "completed"
    /\ session.last_res = Result(0)

\* C9: the fallback add_to_hub returns False for any arguments; the
\* fallback N8NClient holds exactly the pair it was constructed with, its
\* four methods return their fixed empty values, and no stub operation
\* other than the constructor changes the client or any other state.
C9_StubsFixed ==
    /\ [](/\ stubOp = "add_to_hub" => stubRet = FALSE
          /\ stubOp = "__init__" =>
                (stubClient.base_url = stubArgs[1]
                  /\ stubClient.api_key = stubArgs[2])
          /\ stubOp = "test_connection" => stubRet = FALSE
          /\ stubOp = "get_workflow_statistics" =>
                stubRet = [total_workflows |-> 0, active_workflows |-> 0]
          /\ stubOp = "get_execution_statistics" =>
                stubRet = [total_executions |-> 0, successful |-> 0,
                           executions |-> <<>>]
          /\ stubOp = "get_workflows" => stubRet = <<>>)
    /\ [][(stubCalls' # stubCalls /\ stubOp' # "__init__")
            => (stubClient' = stubClient
                /\ UNCHANGED <<binding, session, lastCall>>)]_vars

C9_Witness ==
    /\ stubClient = N8NClient("https://n8n.example", "secret")
    /\ stubOp = "test_connection"
    /\ stubCalls >= 3

\* C10: a strategy whose module loads but lacks a capability leaves the
\* three bindings as they were and is followed by the next strategy, or by
\* the return of False when it was the last one.
C10_PartialModuleFallsThrough ==
    [][(Len(attempts') = Len(attempts) + 1
         /\ attempts'[Len(attempts')].result = "Loaded"
         /\ BoundPrefix(attempts'[Len(attempts')].caps) < Len(Caps))
        => /\ binding' = binding
           /\ IF Len(attempts') <= Len(targets)
              THEN lpc' \in {"loop", "direct"}
              ELSE lpc' = "returned" /\ ret' = "False"]_vars

====
